---- MODULE Spec2Model ----
(***************************************************************************)
(* Room allocation and booking lifecycle of the stayGlobal backend.        *)
(*                                                                         *)
(* Time is counted in hours.  A date d (a day number) is stored the way    *)
(* createBooking stores it: noon UTC of that day.  The server's local      *)
(* midnight is taken to be UTC midnight.                                   *)
(*                                                                         *)
(* A booking's id is its index in the sequence `bookings`.                 *)
(***************************************************************************)
EXTENDS Integers, Sequences, FiniteSets, TLC

VARIABLES
    apartments,   \* Apartment collection: id -> document
    bookings,     \* Booking collection: sequence of documents, id = index
    now,          \* the server clock, in hours
    resp,         \* the HTTP response of the request the last step handled, if any
    reqs,         \* check-in requests in flight (interleaved handlers only)
    probe,        \* arguments and result of the last direct allocator call
    users,        \* User collection: clerkId -> document
    effects       \* the side-effect documents the last step created: <<kind, booking id>>

vars == <<apartments, bookings, now, resp, reqs, probe, users, effects>>

----------------------------------------------------------------------------
(* Bounds of the model *)

MaxBookings == 2      \* documents the Booking collection may hold (Spec)
MaxDay == 2           \* requested dates are days 0..MaxDay (Spec)
MaxNights == 1        \* requested stays last at most this many nights (Spec)
MaxClockDay == 1      \* the clock runs from noon of day 0 to noon of this day
ListingRooms == 2     \* totalRooms of listing 1
MaxProbeRooms == 4    \* totalRooms and room numbers of direct allocator calls

(* Program constants *)

HoursPerDay == 24
NoonHour == 12
CancelLeadHours == 24

(* Absent values of optional fields *)

NoRoom == 0           \* roomNumber absent (undefined is falsy, like 0)
NoTime == 0 - 1       \* checkInTime / checkOutTime absent
NoId == 0             \* no excludeBookingId, no booking in a response

----------------------------------------------------------------------------
(* Fixed data: listings and users *)

Apts == {1, 2}
Days == 0..MaxDay
Users == {"g1", "o1", "o2", "admin"}
BookingUsers == {"g1"}

Role(u) == IF u = "admin" THEN "admin"
           ELSE IF u \in {"o1", "o2"} THEN "owner" ELSE "guest"

DateAt(d) == d * HoursPerDay + NoonHour

Today(t) == (t \div HoursPerDay) * HoursPerDay

Min(S) == CHOOSE x \in S : \A y \in S : x <= y

----------------------------------------------------------------------------
(* Room Allocator *)

\* The statuses the availability query counts.
CountedStatuses == {"confirmed", "checked-in", "completed"}

\* The statuses updateBookingStatus accepts in the request body.
AllowedStatuses == {"confirmed", "checked-in", "completed", "cancelled"}

\* Every value of the bookingStatus enum.
BookingStatuses == {"confirmed", "cancelled", "completed", "no_show", "checked-in"}

\* Seeded fault: exclusive boundaries.
OverlapsStrict(b, checkIn, checkOut) ==
    b.checkIn < checkOut /\ b.checkOut > checkIn

\* The date clause of the query: checkIn $lte target checkOut, checkOut $gte
\* target checkIn.
Overlaps(b, checkIn, checkOut) ==
    b.checkIn <= checkOut /\ b.checkOut >= checkIn

\* Seeded fault: completed bookings no longer counted.
MatchesQueryActiveOnly(b, aptId, checkIn, checkOut) ==
    /\ b.apartmentId = aptId
    /\ Overlaps(b, checkIn, checkOut)
    /\ b.bookingStatus \in {"confirmed", "checked-in"}
    /\ b.roomNumber # NoRoom

\* The query filter shared by getNextAvailableRoom and getRoomOccupancyStatus.
MatchesQuery(b, aptId, checkIn, checkOut) ==
    /\ b.apartmentId = aptId
    /\ Overlaps(b, checkIn, checkOut)
    /\ b.bookingStatus \in CountedStatuses
    /\ b.roomNumber # NoRoom

\* Seeded fault: the excluded booking is not excluded.
OverlappingBookingsNoExclude(store, aptId, checkIn, checkOut, excludeBookingId) ==
    { i \in DOMAIN store : MatchesQuery(store[i], aptId, checkIn, checkOut) }

\* Booking.find(query): the ids of the matching documents.
OverlappingBookings(store, aptId, checkIn, checkOut, excludeBookingId) ==
    { i \in DOMAIN store :
        /\ MatchesQuery(store[i], aptId, checkIn, checkOut)
        /\ (excludeBookingId # NoId => i # excludeBookingId) }

\* new Set(overlappingBookings.map(b => b.roomNumber))
OccupiedRooms(store, aptId, checkIn, checkOut, excludeBookingId) ==
    { store[i].roomNumber :
        i \in OverlappingBookings(store, aptId, checkIn, checkOut, excludeBookingId) }

\* Seeded fault: the scan passes over the room it starts at.
ScanRoomsSkipFirst(roomNum, totalRooms, occupied) ==
    IF roomNum + 1 > totalRooms THEN NoRoom ELSE roomNum + 1

\* The scan loop from roomNum upward; NoRoom stands for the thrown error.
RECURSIVE ScanRooms(_, _, _)
ScanRooms(roomNum, totalRooms, occupied) ==
    IF roomNum > totalRooms THEN NoRoom
    ELSE IF roomNum \notin occupied THEN roomNum
    ELSE ScanRooms(roomNum + 1, totalRooms, occupied)

\* Seeded fault: the highest free room instead of the lowest.
RECURSIVE ScanRoomsDown(_, _, _)
ScanRoomsDown(roomNum, totalRooms, occupied) ==
    IF roomNum < 1 THEN NoRoom
    ELSE IF roomNum \notin occupied THEN roomNum
    ELSE ScanRoomsDown(roomNum - 1, totalRooms, occupied)

FirstFreeRoomHighest(totalRooms, occupied) == ScanRoomsDown(totalRooms, totalRooms, occupied)

\* for (roomNum = 1; roomNum <= totalRooms; roomNum++) ... ; throw
FirstFreeRoom(totalRooms, occupied) == ScanRooms(1, totalRooms, occupied)

\* getNextAvailableRoom: err is "none", "NotFound" (no such apartment) or
\* "NoRooms"; total is the room count the error message carries.
getNextAvailableRoom(apts, store, aptId, checkIn, checkOut, excludeBookingId) ==
    IF aptId \notin DOMAIN apts
    THEN [err |-> "NotFound", room |-> NoRoom, total |-> 0]
    ELSE LET occupied == OccupiedRooms(store, aptId, checkIn, checkOut, excludeBookingId)
             room == FirstFreeRoom(apts[aptId].totalRooms, occupied)
         IN  IF room = NoRoom
             THEN [err |-> "NoRooms", room |-> NoRoom, total |-> apts[aptId].totalRooms]
             ELSE [err |-> "none", room |-> room, total |-> apts[aptId].totalRooms]

\* getRoomOccupancyStatus: the Map is keyed by room number, one roomStatus
\* entry per room 1..totalRooms.
getRoomOccupancyStatus(apts, store, aptId, checkIn, checkOut) ==
    LET keys == OccupiedRooms(store, aptId, checkIn, checkOut, NoId)
        total == apts[aptId].totalRooms
    IN  [totalRooms |-> total,
         availableRooms |-> total - Cardinality(keys),
         occupiedRooms |-> Cardinality(keys),
         roomStatus |-> [r \in 1..total |-> r \in keys]]

----------------------------------------------------------------------------
(* Stored documents and responses *)

InitApartments ==
    [a \in Apts |->
        [totalRooms |-> IF a = 1 THEN ListingRooms ELSE 1,
         availableRooms |-> IF a = 1 THEN ListingRooms ELSE 1,   \* createApartment: = totalRooms
         isActive |-> TRUE,
         ownerId |-> IF a = 1 THEN "o1" ELSE "o2"]]

\* Every user is registered and active; the owners' payment accounts are
\* verified and complete.
InitUsers ==
    [u \in Users |-> [status |-> "active", payment |-> "verified"]]

\* Seeded fault: the reservation claims room 1.
NewBookingWithRoom(aptId, guestId, checkIn, checkOut) ==
    [apartmentId |-> aptId,
     guestId |-> guestId,
     checkIn |-> checkIn,
     checkOut |-> checkOut,
     bookingStatus |-> "confirmed",
     roomNumber |-> 1,
     checkInTime |-> NoTime,
     checkOutTime |-> NoTime]

\* The document Booking.create stores for createBooking's bookingData.
NewBooking(aptId, guestId, checkIn, checkOut) ==
    [apartmentId |-> aptId,
     guestId |-> guestId,
     checkIn |-> checkIn,
     checkOut |-> checkOut,
     bookingStatus |-> "confirmed",
     roomNumber |-> NoRoom,
     checkInTime |-> NoTime,
     checkOutTime |-> NoTime]

\* A response: the handler, the booking id and (for updateBookingStatus) the
\* status of the request it answers, the HTTP code, the error, and the room
\* number, timestamp and room count its body carries.
RespFor(op, id, arg, code, err, room, time, total) ==
    [op |-> op, id |-> id, arg |-> arg, code |-> code, err |-> err,
     room |-> room, time |-> time, total |-> total]

Resp(op, id, code, err, room, time, total) ==
    RespFor(op, id, "none", code, err, room, time, total)

NoResp == Resp("none", NoId, 0, "none", NoRoom, NoTime, 0)

NoProbe == [op |-> "none"]

Init ==
    /\ apartments = InitApartments
    /\ bookings = << >>
    /\ now = DateAt(0)
    /\ resp = NoResp
    /\ reqs = << >>
    /\ probe = NoProbe
    /\ users = InitUsers
    /\ effects = {}

----------------------------------------------------------------------------
(* The clock *)

Tick ==
    /\ now + HoursPerDay <= DateAt(MaxClockDay)
    /\ now' = now + HoursPerDay
    /\ resp' = NoResp
    /\ UNCHANGED <<apartments, bookings, reqs, probe, users>>
    /\ effects' = {}

----------------------------------------------------------------------------
(* createBooking *)

\* What createBooking creates besides the booking.
SideEffects == {"adminNotification", "ownerNotification", "chat", "commission"}

\* The paymentStatus of the booking data: absent from the request
\* (not_required), paid, or completed, which the schema's enum does not hold.
PaymentStatuses == {"not_required", "paid", "completed"}

\* Seeded fault: a failed notification stops the handler's other side effects.
CreateBookingEffectsAllOrNothing(payment, failing) ==
    IF failing # {} THEN {}
    ELSE {"adminNotification", "ownerNotification", "chat"}
         \cup (IF payment = "paid" THEN {"commission"} ELSE {})

\* The side effects that complete when the calls in failing throw: the two
\* notifications share one try block, the chat and the commission have one
\* each, and the commission is created only for a paid booking.
CreateBookingEffects(payment, failing) ==
    (IF "adminNotification" \in failing THEN {}
     ELSE IF "ownerNotification" \in failing THEN {"adminNotification"}
     ELSE {"adminNotification", "ownerNotification"})
    \cup (IF "chat" \in failing THEN {} ELSE {"chat"})
    \cup (IF payment = "paid" /\ "commission" \notin failing THEN {"commission"} ELSE {})

\* Seeded fault: the owner's payment account is not looked at.
OwnerRejectionNoPayment(usrs, ownerId) ==
    IF ownerId \notin DOMAIN usrs THEN "OwnerNotFound"
    ELSE IF usrs[ownerId].status = "suspended" THEN "PropertyUnavailable"
    ELSE "none"

\* The owner checks: found, not suspended, payment account verified and (for
\* the provider used) complete.
OwnerRejection(usrs, ownerId) ==
    IF ownerId \notin DOMAIN usrs THEN "OwnerNotFound"
    ELSE IF usrs[ownerId].status = "suspended" THEN "PropertyUnavailable"
    ELSE IF usrs[ownerId].payment = "unverified" THEN "PaymentAccountNotConfigured"
    ELSE IF usrs[ownerId].payment = "incomplete" THEN "PaymentConfigurationIncomplete"
    ELSE "none"

\* Schema.Types.ObjectId cast of a string: a Clerk user id (user_ and 27
\* characters) is no 24-digit hex string.
CastsToObjectId(id) == id \notin Users

\* Seeded fault: the commission document is not validated.
CommissionRejectedNever(ownerId, guestId) == {}

\* commission.save() validates the document: ownerId and guestId are required
\* ObjectIds and are given the apartment's ownerId and the booking's guestId,
\* both Clerk user ids.  (Without a paymentReference the status, manual_review,
\* is outside the schema's enum as well.)  The side effects the document's
\* validation makes fail.
CommissionRejected(ownerId, guestId) ==
    IF CastsToObjectId(ownerId) /\ CastsToObjectId(guestId) THEN {} ELSE {"commission"}

CreateBooking(user, aptId, d1, d2, payment, failing) ==
    LET checkInDate == DateAt(d1)
        checkOutDate == DateAt(d2)
        avail == getNextAvailableRoom(apartments, bookings, aptId,
                                      checkInDate, checkOutDate, NoId)
        rejection == OwnerRejection(users, apartments[aptId].ownerId)
        Fail(code, err) == /\ resp' = Resp("createBooking", NoId, code, err, NoRoom, NoTime, 0)
                           /\ UNCHANGED bookings
                           /\ effects' = {}
    IN
    /\ IF user \notin DOMAIN users
         THEN Fail(404, "UserNotFound")
       ELSE IF aptId \notin DOMAIN apartments
         THEN Fail(404, "ApartmentNotFound")
       ELSE IF ~apartments[aptId].isActive
         THEN Fail(400, "ApartmentNotAvailable")
       ELSE IF rejection # "none"
         THEN Fail(400, rejection)
       ELSE IF checkInDate < Today(now)
         THEN Fail(400, "CheckInInPast")
       ELSE IF checkOutDate <= checkInDate
         THEN Fail(400, "InvalidDateRange")
       ELSE IF avail.err # "none"
         THEN /\ resp' = Resp("createBooking", NoId, 400, "NoRoomsAvailable",
                              NoRoom, NoTime, avail.total)
              /\ UNCHANGED bookings
              /\ effects' = {}
       ELSE IF payment = "completed"
         \* Booking.create rejects the document: ValidationError
         THEN Fail(400, "ValidationFailed")
       ELSE /\ bookings' = Append(bookings, NewBooking(aptId, user, checkInDate, checkOutDate))
            /\ resp' = Resp("createBooking", Len(bookings) + 1, 201, "none", NoRoom, NoTime, 0)
            /\ effects' = { <<k, Len(bookings) + 1>> :
                               k \in CreateBookingEffects(payment,
                                        failing \cup CommissionRejected(apartments[aptId].ownerId, user)) }
    /\ UNCHANGED <<apartments, now, reqs, probe, users>>

----------------------------------------------------------------------------
(* updateBookingStatus: PATCH /:id/status, behind requireRole(owner, admin) *)

\* The document as edited in memory from the assignment of the status to the
\* save, or the error that ends the request before the save.
\* Seeded fault: a booking that already has a room is given a room again.
StatusEditReassign(apts, store, id, status, t) ==
    LET doc == [store[id] EXCEPT !.bookingStatus = status]
        found == getNextAvailableRoom(apts, store, doc.apartmentId,
                                      doc.checkIn, doc.checkOut, id)
        withRoom == IF status = "checked-in"
                    THEN [doc EXCEPT !.roomNumber = found.room, !.checkInTime = t]
                    ELSE doc
        withOut == IF status = "completed" /\ withRoom.checkInTime # NoTime
                      /\ withRoom.checkOutTime = NoTime
                   THEN [withRoom EXCEPT !.checkOutTime = t]
                   ELSE withRoom
    IN  IF status = "checked-in" /\ found.err # "none"
        THEN [ok |-> FALSE, err |-> found.err, total |-> found.total, doc |-> store[id]]
        ELSE [ok |-> TRUE, err |-> "none", total |-> found.total, doc |-> withOut]

StatusEdit(apts, store, id, status, t) ==
    LET doc == [store[id] EXCEPT !.bookingStatus = status]
        needsRoom == status = "checked-in" /\ doc.roomNumber = NoRoom
        found == getNextAvailableRoom(apts, store, doc.apartmentId,
                                      doc.checkIn, doc.checkOut, id)
        withRoom == IF needsRoom
                    THEN [doc EXCEPT !.roomNumber = found.room, !.checkInTime = t]
                    ELSE doc
        withOut == IF status = "completed" /\ withRoom.checkInTime # NoTime
                      /\ withRoom.checkOutTime = NoTime
                   THEN [withRoom EXCEPT !.checkOutTime = t]
                   ELSE withRoom
    IN  IF needsRoom /\ found.err # "none"
        THEN [ok |-> FALSE, err |-> found.err, total |-> found.total, doc |-> store[id]]
        ELSE [ok |-> TRUE, err |-> "none", total |-> found.total, doc |-> withOut]

\* Seeded fault: the failed check-in saves the document it edited in memory.
SaveOnFailedEdit(store, id, status, edit) ==
    IF edit.ok THEN [store EXCEPT ![id] = edit.doc]
    ELSE [store EXCEPT ![id].bookingStatus = status]

\* The collection after the request: the save is reached only by an edit that
\* did not fail.
StoreAfterEdit(store, id, status, edit) ==
    IF edit.ok THEN [store EXCEPT ![id] = edit.doc] ELSE store

\* Seeded fault: no already-checked-in guard.
AlreadyCheckedInNever(b, status) == FALSE

\* The guard in front of the authorization check.
AlreadyCheckedIn(b, status) ==
    status = "checked-in" /\ b.bookingStatus = "checked-in"

\* Not admin, and not the owner of the booking's apartment.
NotAuthorizedForStatus(apts, b, user) ==
    /\ Role(user) # "admin"
    /\ (b.apartmentId \notin DOMAIN apts \/ apts[b.apartmentId].ownerId # user)

UpdateBookingStatus(user, id, status) ==
    LET op == "updateBookingStatus"
        Fail(code, err) == /\ resp' = RespFor(op, id, status, code, err, NoRoom, NoTime, 0)
                           /\ UNCHANGED bookings
    IN
    /\ IF Role(user) \notin {"owner", "admin"}
         THEN Fail(403, "Forbidden")
       ELSE IF status \notin AllowedStatuses
         THEN Fail(400, "InvalidStatus")
       ELSE IF id \notin DOMAIN bookings
         THEN Fail(404, "BookingNotFound")
       ELSE IF AlreadyCheckedIn(bookings[id], status)
         THEN /\ resp' = RespFor(op, id, status, 400, "AlreadyCheckedIn",
                              bookings[id].roomNumber, bookings[id].checkInTime, 0)
              /\ UNCHANGED bookings
       ELSE IF NotAuthorizedForStatus(apartments, bookings[id], user)
         THEN Fail(403, "NotAuthorized")
       ELSE LET edit == StatusEdit(apartments, bookings, id, status, now) IN
            /\ bookings' = StoreAfterEdit(bookings, id, status, edit)
            /\ resp' = IF edit.ok
                       THEN RespFor(op, id, status, 200, "none", edit.doc.roomNumber,
                                 edit.doc.checkInTime, 0)
                       ELSE RespFor(op, id, status, 400,
                                 IF edit.err = "NoRooms" THEN "NoRoomsAvailable" ELSE edit.err,
                                 NoRoom, NoTime, edit.total)
    /\ UNCHANGED <<apartments, now, reqs, probe, users>>
    /\ effects' = {}

----------------------------------------------------------------------------
(* cancelBooking: PATCH /:id/cancel *)

CancelBooking(user, id) ==
    LET op == "cancelBooking"
        Fail(code, err) == /\ resp' = Resp(op, id, code, err, NoRoom, NoTime, 0)
                           /\ UNCHANGED <<bookings, apartments>>
    IN
    /\ IF id \notin DOMAIN bookings
         THEN Fail(404, "BookingNotFound")
       ELSE IF bookings[id].guestId # user /\ Role(user) # "admin"
         THEN Fail(403, "NotAuthorized")
       ELSE IF bookings[id].bookingStatus = "cancelled"
         THEN Fail(400, "AlreadyCancelled")
       ELSE IF bookings[id].bookingStatus = "completed"
         THEN Fail(400, "CannotCancelCompleted")
       ELSE IF bookings[id].checkIn - now < CancelLeadHours
         THEN Fail(400, "TooLateToCancel")
       ELSE LET aptId == bookings[id].apartmentId
                restored == apartments[aptId].availableRooms + 1
            IN
            /\ bookings' = [bookings EXCEPT ![id].bookingStatus = "cancelled"]
            /\ IF aptId \notin DOMAIN apartments
                 THEN /\ UNCHANGED apartments
                      /\ resp' = Resp(op, id, 200, "none", NoRoom, NoTime, 0)
               ELSE IF restored > apartments[aptId].totalRooms
                 \* the availableRooms validator rejects the apartment's save
                 THEN /\ UNCHANGED apartments
                      /\ resp' = Resp(op, id, 500, "FailedToCancel", NoRoom, NoTime, 0)
               ELSE /\ apartments' = [apartments EXCEPT ![aptId].availableRooms = restored]
                    /\ resp' = Resp(op, id, 200, "none", NoRoom, NoTime, 0)
    /\ UNCHANGED <<now, reqs, probe, users>>
    /\ effects' = {}

----------------------------------------------------------------------------
(* selfCheckout: POST /:id/checkout *)

SelfCheckout(user, id, failing) ==
    LET op == "selfCheckout"
        Fail(code, err) == /\ resp' = Resp(op, id, code, err, NoRoom, NoTime, 0)
                           /\ UNCHANGED bookings
                           /\ effects' = {}
    IN
    /\ IF id \notin DOMAIN bookings
         THEN Fail(404, "BookingNotFound")
       ELSE IF bookings[id].guestId # user
         THEN Fail(403, "NotAuthorized")
       ELSE IF bookings[id].bookingStatus # "checked-in"
         THEN Fail(400, "NotCheckedIn")
       ELSE IF bookings[id].checkOutTime # NoTime
         THEN /\ resp' = Resp(op, id, 400, "AlreadyCheckedOut", NoRoom,
                              bookings[id].checkOutTime, 0)
              /\ UNCHANGED bookings
              /\ effects' = {}
       ELSE /\ bookings' = [bookings EXCEPT ![id].bookingStatus = "completed",
                                            ![id].checkOutTime = now]
            /\ resp' = Resp(op, id, 200, "none", bookings[id].roomNumber, now, 0)
            \* the owner's notification, inside its own try block
            /\ effects' = IF failing THEN {} ELSE {<<"ownerNotification", id>>}
    /\ UNCHANGED <<apartments, now, reqs, probe, users>>

----------------------------------------------------------------------------
(* AutoCheckoutService.processAutoCheckouts: one pass of the 30-minute timer *)

\* Seeded fault: $lt in place of $lte.
ExpiredStrict(b, t) ==
    /\ b.bookingStatus = "checked-in"
    /\ b.checkOut < t
    /\ b.roomNumber # NoRoom

\* The filter of the scan: checked-in, checkOut $lte now, roomNumber set.
Expired(b, t) ==
    /\ b.bookingStatus = "checked-in"
    /\ b.checkOut <= t
    /\ b.roomNumber # NoRoom

\* Seeded fault: the notification is created before the booking is saved.
ProcessAutoCheckoutsNotifyFirst(failing) ==
    /\ bookings' = [i \in DOMAIN bookings |->
                      IF Expired(bookings[i], now) /\ i \notin failing
                      THEN [bookings[i] EXCEPT !.bookingStatus = "completed",
                                               !.checkOutTime = now]
                      ELSE bookings[i]]
    /\ resp' = NoResp
    /\ effects' = { <<"ownerNotification", i>> :
                      i \in { j \in DOMAIN bookings : Expired(bookings[j], now) } \ failing }
    /\ UNCHANGED <<apartments, now, reqs, probe, users>>

\* failing: the bookings whose owner notification throws; the booking is
\* saved before the notification is created.
ProcessAutoCheckouts(failing) ==
    /\ bookings' = [i \in DOMAIN bookings |->
                      IF Expired(bookings[i], now)
                      THEN [bookings[i] EXCEPT !.bookingStatus = "completed",
                                               !.checkOutTime = now]
                      ELSE bookings[i]]
    /\ resp' = NoResp
    /\ effects' = { <<"ownerNotification", i>> :
                      i \in { j \in DOMAIN bookings : Expired(bookings[j], now) } \ failing }
    /\ UNCHANGED <<apartments, now, reqs, probe, users>>

\* Seeded fault: the scan has no date clause, every checked-in booking with a
\* room is checked out.
AutoCheckoutPassAnyDate(saveFailing, failing) ==
    LET expired == { i \in DOMAIN bookings :
                       /\ bookings[i].bookingStatus = "checked-in"
                       /\ bookings[i].roomNumber # NoRoom }
        saved == expired \ saveFailing
    IN
    /\ bookings' = [i \in DOMAIN bookings |->
                      IF i \in saved
                      THEN [bookings[i] EXCEPT !.bookingStatus = "completed",
                                               !.checkOutTime = now]
                      ELSE bookings[i]]
    /\ resp' = NoResp
    /\ effects' = { <<"ownerNotification", i>> : i \in saved \ failing }
    /\ UNCHANGED <<apartments, now, reqs, probe, users>>

\* Seeded fault: the first failure ends the loop (no try block inside it).
\* Bookings are processed in the order of their ids.
AutoCheckoutPassAbortOnError(saveFailing, failing) ==
    LET expired == { i \in DOMAIN bookings : Expired(bookings[i], now) }
        thrown == { i \in expired : i \in saveFailing \/ i \in failing }
        reached == { i \in expired : \A j \in thrown : i <= j }
        saved == reached \ saveFailing
    IN
    /\ bookings' = [i \in DOMAIN bookings |->
                      IF i \in saved
                      THEN [bookings[i] EXCEPT !.bookingStatus = "completed",
                                               !.checkOutTime = now]
                      ELSE bookings[i]]
    /\ resp' = NoResp
    /\ effects' = { <<"ownerNotification", i>> : i \in saved \ failing }
    /\ UNCHANGED <<apartments, now, reqs, probe, users>>

\* The pass with both failures of the loop body: saveFailing are the bookings
\* whose save throws, failing those whose notification throws.  Each
\* booking's failure is caught inside the loop; a booking whose save threw is
\* left as stored and gets no notification.
AutoCheckoutPass(saveFailing, failing) ==
    LET expired == { i \in DOMAIN bookings : Expired(bookings[i], now) }
        saved == expired \ saveFailing
    IN
    /\ bookings' = [i \in DOMAIN bookings |->
                      IF i \in saved
                      THEN [bookings[i] EXCEPT !.bookingStatus = "completed",
                                               !.checkOutTime = now]
                      ELSE bookings[i]]
    /\ resp' = NoResp
    /\ effects' = { <<"ownerNotification", i>> : i \in saved \ failing }
    /\ UNCHANGED <<apartments, now, reqs, probe, users>>

----------------------------------------------------------------------------
(* verifySplitPayment: the booking is updated and saved (paymentStatus is   *)
(* not part of this model's booking document), then the commission document *)
(* it builds lacks required fields and Commission.create rejects.           *)

VerifySplitPayment(id, verified) ==
    LET op == "verifySplitPayment" IN
    /\ IF ~verified
         THEN /\ resp' = Resp(op, id, 400, "PaymentVerificationFailed", NoRoom, NoTime, 0)
              /\ UNCHANGED bookings
       ELSE IF id \notin DOMAIN bookings
         THEN /\ resp' = Resp(op, id, 200, "none", NoRoom, NoTime, 0)
              /\ UNCHANGED bookings
       ELSE /\ bookings' = [bookings EXCEPT ![id].bookingStatus = "confirmed"]
            /\ resp' = Resp(op, id, 500, "PaymentVerificationFailed", NoRoom, NoTime, 0)
    /\ UNCHANGED <<apartments, now, reqs, probe, users>>
    /\ effects' = {}

----------------------------------------------------------------------------
(* Requests handled one at a time, each run to completion *)

BookingIds == 1..MaxBookings

Reserve ==
    \E user \in BookingUsers, d1 \in Days, d2 \in Days :
        /\ Len(bookings) < MaxBookings
        /\ d2 - d1 <= MaxNights
        /\ CreateBooking(user, 1, d1, d2, "not_required", {})

\* The booking requests: reservation, status update (check-in, check-out and
\* any other status), cancellation, self-checkout.
Next ==
    \/ Tick
    \/ Reserve
    \/ \E user \in Users, id \in BookingIds, status \in BookingStatuses :
          UpdateBookingStatus(user, id, status)
    \/ \E user \in Users, id \in BookingIds : CancelBooking(user, id)
    \/ \E user \in Users, id \in BookingIds : SelfCheckout(user, id, FALSE)

Spec == Init /\ [][Next]_vars

\* The booking requests together with the auto-checkout timer and payment
\* verification.
NextAll ==
    \/ Next
    \/ ProcessAutoCheckouts({})
    \/ \E id \in BookingIds, verified \in BOOLEAN : VerifySplitPayment(id, verified)

SpecAll == Init /\ [][NextAll]_vars

----------------------------------------------------------------------------
(* The end-to-end scenario: one more reservation than listing 1 has rooms,  *)
(* the guests are checked in by the owner and check themselves out.         *)

ScenarioBookings == ListingRooms + 1
ScenarioIds == 1..ScenarioBookings

\* Jan 1-5, Jan 2-4, Jan 3-6 for the first three reservations (every later
\* one repeats the third), and a stay after all of them.
ScenarioRange(i) ==
    IF i = 1 THEN <<1, 5>> ELSE IF i = 2 THEN <<2, 4>> ELSE <<3, 6>>
LaterRange == <<8, 9>>

ScenarioReserve ==
    /\ Len(bookings) < ScenarioBookings
    /\ \E r \in {ScenarioRange(Len(bookings) + 1), LaterRange} :
          CreateBooking("g1", 1, r[1], r[2], "not_required", {})

ScenarioCheckIn == \E id \in ScenarioIds : UpdateBookingStatus("o1", id, "checked-in")

ScenarioCheckOut == \E id \in ScenarioIds : SelfCheckout("g1", id, FALSE)

NextScenario ==
    \/ ScenarioReserve
    \/ ScenarioCheckIn
    \/ ScenarioCheckOut

SpecScenario == Init /\ [][NextScenario]_vars

----------------------------------------------------------------------------
(* Check-in requests whose awaits interleave.  A request loads the booking, *)
(* reads the occupied rooms, and saves; other requests run between the      *)
(* steps.  The requester is the listing's owner.                            *)

MaxInFlight == 2

\* updateBookingStatus up to the end of the guards: Booking.findById and the
\* already-checked-in test on the loaded document.
BeginCheckIn(id) ==
    /\ Len(reqs) < MaxInFlight
    /\ id \in DOMAIN bookings
    /\ IF AlreadyCheckedIn(bookings[id], "checked-in")
         THEN /\ resp' = RespFor("updateBookingStatus", id, "checked-in", 400,
                                 "AlreadyCheckedIn", bookings[id].roomNumber,
                                 bookings[id].checkInTime, 0)
              /\ UNCHANGED reqs
         ELSE /\ reqs' = Append(reqs, [id |-> id, pc |-> "find",
                                       doc |-> [bookings[id] EXCEPT
                                                  !.bookingStatus = "checked-in"]])
              /\ resp' = NoResp
    /\ UNCHANGED <<apartments, bookings, now, probe, users>>
    /\ effects' = {}

Without(q, k) == [i \in 1..(Len(q) - 1) |-> IF i < k THEN q[i] ELSE q[i + 1]]

\* getNextAvailableRoom inside the request: the occupied rooms are read from
\* the collection as it is now; the room goes into the loaded document.
FindRoomStep(k) ==
    /\ k \in DOMAIN reqs
    /\ reqs[k].pc = "find"
    /\ LET r == reqs[k]
           found == getNextAvailableRoom(apartments, bookings, r.doc.apartmentId,
                                         r.doc.checkIn, r.doc.checkOut, r.id)
       IN  IF r.doc.roomNumber # NoRoom
           THEN /\ reqs' = [reqs EXCEPT ![k].pc = "save"]
                /\ resp' = NoResp
           ELSE IF found.err # "none"
           THEN /\ reqs' = Without(reqs, k)
                /\ resp' = RespFor("updateBookingStatus", r.id, "checked-in", 400,
                                   "NoRoomsAvailable", NoRoom, NoTime, found.total)
           ELSE /\ reqs' = [reqs EXCEPT ![k].pc = "save",
                                        ![k].doc.roomNumber = found.room,
                                        ![k].doc.checkInTime = now]
                /\ resp' = NoResp
    /\ UNCHANGED <<apartments, bookings, now, probe, users>>
    /\ effects' = {}

\* booking.save(): the fields the request modified are written to the stored
\* document.
SaveCheckInStep(k) ==
    /\ k \in DOMAIN reqs
    /\ reqs[k].pc = "save"
    /\ LET r == reqs[k] IN
       /\ bookings' = [bookings EXCEPT ![r.id].bookingStatus = r.doc.bookingStatus,
                                       ![r.id].roomNumber = r.doc.roomNumber,
                                       ![r.id].checkInTime = r.doc.checkInTime]
       /\ resp' = RespFor("updateBookingStatus", r.id, "checked-in", 200, "none",
                          r.doc.roomNumber, r.doc.checkInTime, 0)
    /\ reqs' = Without(reqs, k)
    /\ UNCHANGED <<apartments, now, probe, users>>
    /\ effects' = {}

NextConc ==
    \/ ScenarioReserve /\ reqs = << >>
    \/ \E id \in ScenarioIds : BeginCheckIn(id)
    \/ \E k \in 1..MaxInFlight : FindRoomStep(k)
    \/ \E k \in 1..MaxInFlight : SaveCheckInStep(k)

SpecConc == Init /\ [][NextConc]_vars

----------------------------------------------------------------------------
(* Direct calls of the allocator on given inputs *)

\* The scan of getNextAvailableRoom on a room count and an occupied set.
InitFind ==
    /\ apartments = InitApartments
    /\ bookings = << >>
    /\ now = DateAt(0)
    /\ resp = NoResp
    /\ reqs = << >>
    /\ users = InitUsers
    /\ effects = {}
    /\ \E n \in 1..MaxProbeRooms, S \in SUBSET (1..MaxProbeRooms) :
          probe = [op |-> "none", totalRooms |-> n, occupied |-> S, room |-> NoRoom]

CallFirstFreeRoom ==
    /\ probe.op = "none"
    /\ probe' = [probe EXCEPT !.op = "findAvailableRoom",
                              !.room = FirstFreeRoom(probe.totalRooms, probe.occupied)]
    /\ UNCHANGED <<apartments, bookings, now, resp, reqs, users>>
    /\ effects' = {}

SpecFind == InitFind /\ [][CallFirstFreeRoom]_vars

\* The two queries on a collection of two stored bookings.
QueryDays == 0..3
QueryRanges == { <<d1, d2>> \in QueryDays \X QueryDays : d1 < d2 }

StoredBookings ==
    { [apartmentId |-> a, guestId |-> "g1",
       checkIn |-> DateAt(d), checkOut |-> DateAt(d + 1),
       bookingStatus |-> st, roomNumber |-> r,
       checkInTime |-> IF r = NoRoom THEN NoTime ELSE DateAt(0),
       checkOutTime |-> IF st = "completed" /\ r # NoRoom THEN DateAt(0) ELSE NoTime] :
      a \in Apts, d \in QueryDays \ {3}, st \in BookingStatuses, r \in 0..ListingRooms }

InitQuery ==
    /\ apartments = InitApartments
    /\ \E b1 \in StoredBookings, b2 \in StoredBookings : bookings = <<b1, b2>>
    /\ now = DateAt(0)
    /\ resp = NoResp
    /\ reqs = << >>
    /\ probe = NoProbe
    /\ users = InitUsers
    /\ effects = {}

CallGetNextAvailableRoom(aptId, range, excludeBookingId) ==
    /\ probe.op = "none"
    /\ probe' = [op |-> "getNextAvailableRoom", aptId |-> aptId,
                 checkIn |-> DateAt(range[1]), checkOut |-> DateAt(range[2]),
                 exclude |-> excludeBookingId,
                 occupied |-> OccupiedRooms(bookings, aptId, DateAt(range[1]),
                                            DateAt(range[2]), excludeBookingId),
                 result |-> getNextAvailableRoom(apartments, bookings, aptId,
                                DateAt(range[1]), DateAt(range[2]), excludeBookingId)]
    /\ UNCHANGED <<apartments, bookings, now, resp, reqs, users>>
    /\ effects' = {}

CallGetRoomOccupancyStatus(aptId, range) ==
    /\ probe.op = "none"
    /\ probe' = [op |-> "getRoomOccupancyStatus", aptId |-> aptId,
                 checkIn |-> DateAt(range[1]), checkOut |-> DateAt(range[2]),
                 exclude |-> NoId,
                 occupied |-> OccupiedRooms(bookings, aptId, DateAt(range[1]),
                                            DateAt(range[2]), NoId),
                 result |-> getRoomOccupancyStatus(apartments, bookings, aptId,
                                DateAt(range[1]), DateAt(range[2]))]
    /\ UNCHANGED <<apartments, bookings, now, resp, reqs, users>>
    /\ effects' = {}

NextQuery ==
    \/ \E range \in QueryRanges, ex \in {NoId, 1} : CallGetNextAvailableRoom(1, range, ex)
    \/ \E range \in QueryRanges : CallGetRoomOccupancyStatus(1, range)

SpecQuery == InitQuery /\ [][NextQuery]_vars

----------------------------------------------------------------------------
(* Reservations against listings and owners in every condition createBooking *)
(* tests: listing 1 is inactive, or its owner is missing, suspended, or has  *)
(* an unverified or incomplete payment account, or all is in order.          *)

ListingConditions ==
    {"ok", "inactive", "ownerMissing", "suspended", "unverified", "incomplete"}

ApartmentsIn(c) ==
    [InitApartments EXCEPT ![1].isActive = (c # "inactive")]

UsersIn(c) ==
    IF c = "ownerMissing" THEN [u \in Users \ {"o1"} |-> InitUsers[u]]
    ELSE IF c = "suspended" THEN [InitUsers EXCEPT !["o1"].status = "suspended"]
    ELSE IF c \in {"unverified", "incomplete"} THEN [InitUsers EXCEPT !["o1"].payment = c]
    ELSE InitUsers

InitCreate ==
    /\ \E c \in ListingConditions :
          /\ apartments = ApartmentsIn(c)
          /\ users = UsersIn(c)
    /\ bookings = << >>
    /\ now = DateAt(0)
    /\ resp = NoResp
    /\ reqs = << >>
    /\ probe = NoProbe
    /\ effects = {}

\* The listing ids of the requests: the two listings and one that does not exist.
RequestedApts == Apts \cup {3}

CreateRequest ==
    \E aptId \in RequestedApts, d1 \in Days, d2 \in Days, payment \in PaymentStatuses :
        /\ Len(bookings) < MaxBookings
        /\ d2 - d1 <= MaxNights
        /\ CreateBooking("g1", aptId, d1, d2, payment, {})

OwnerCheckIn ==
    \E user \in {"o1", "o2"}, id \in BookingIds : UpdateBookingStatus(user, id, "checked-in")

NextCreate ==
    \/ Tick
    \/ CreateRequest
    \/ OwnerCheckIn

SpecCreate == InitCreate /\ [][NextCreate]_vars

----------------------------------------------------------------------------
(* Requests and timer passes during which side effects fail *)

EffectsReserve ==
    \E d1 \in Days, d2 \in Days, payment \in {"not_required", "paid"},
       failing \in SUBSET SideEffects :
        /\ Len(bookings) < MaxBookings
        /\ d2 - d1 <= MaxNights
        /\ CreateBooking("g1", 1, d1, d2, payment, failing)

NextEffects ==
    \/ Tick
    \/ EffectsReserve
    \/ \E id \in BookingIds : UpdateBookingStatus("o1", id, "checked-in")
    \/ \E id \in BookingIds, failing \in BOOLEAN : SelfCheckout("g1", id, failing)
    \/ \E failing \in SUBSET BookingIds : ProcessAutoCheckouts(failing)

SpecEffects == Init /\ [][NextEffects]_vars

----------------------------------------------------------------------------
(* updateApartment: PUT /apartments/:id.  The request body may carry         *)
(* totalRooms and availableRooms; NoUpdate stands for a field it omits.      *)

NoUpdate == 0 - 1

\* The apartment's validators: totalRooms min 1, availableRooms min 0 and at
\* most totalRooms.
ApartmentValid(a) ==
    /\ a.totalRooms >= 1
    /\ a.availableRooms >= 0
    /\ a.availableRooms <= a.totalRooms

UpdateApartment(user, aptId, totalRooms, availableRooms) ==
    LET op == "updateApartment"
        Fail(code, err) == /\ resp' = Resp(op, aptId, code, err, NoRoom, NoTime, 0)
                           /\ UNCHANGED apartments
    IN
    /\ IF aptId \notin DOMAIN apartments
         THEN Fail(404, "ApartmentNotFound")
       ELSE IF apartments[aptId].ownerId # user /\ Role(user) # "admin"
         THEN Fail(403, "NotAuthorized")
       ELSE LET a == apartments[aptId]
                \* Object.assign(apartment, updates)
                edited == [a EXCEPT
                             !.totalRooms = IF totalRooms = NoUpdate THEN @ ELSE totalRooms,
                             !.availableRooms = IF availableRooms = NoUpdate THEN @
                                                ELSE availableRooms]
            IN  IF ~ApartmentValid(edited)
                  THEN Fail(500, "FailedToUpdate")
                ELSE /\ apartments' = [apartments EXCEPT ![aptId] = edited]
                     /\ resp' = Resp(op, aptId, 200, "none", NoRoom, NoTime, edited.totalRooms)
    /\ UNCHANGED <<bookings, now, reqs, probe, users>>
    /\ effects' = {}

\* Listing edits between reservations and check-ins.
RoomCounts == 0..(ListingRooms + 1)

EditListing ==
    \E user \in {"o1", "o2"}, aptId \in {1, 3},
       totalRooms \in RoomCounts \cup {NoUpdate}, availableRooms \in RoomCounts \cup {NoUpdate} :
        UpdateApartment(user, aptId, totalRooms, availableRooms)

NextListing ==
    \/ Reserve
    \/ \E id \in BookingIds : UpdateBookingStatus("o1", id, "checked-in")
    \/ EditListing

SpecListing == Init /\ [][NextListing]_vars

\* The occupancy query on the listings and bookings these requests leave.
NextOccupancy ==
    \/ NextListing
    \/ \E range \in {<<0, 1>>, <<2, 3>>} : CallGetRoomOccupancyStatus(1, range)

SpecOccupancy == Init /\ [][NextOccupancy]_vars

----------------------------------------------------------------------------
(* Ticket codes.  A code is a sequence of characters.  createBooking and the *)
(* payment-first creation of verifyPayment build the code from the clock and *)
(* a random number; the collection's unique index refuses a code it holds.   *)

MaxTickets == 2       \* ticket codes the index may hold
RandomLen == 6        \* substr(2, 6)

\* Decimal digits of a positive number, most significant first.
RECURSIVE Decimal(_)
Decimal(n) ==
    IF n < 10 THEN <<n>> ELSE Append(Decimal(n \div 10), n % 10)

DigitChar(d) ==
    <<"0", "1", "2", "3", "4", "5", "6", "7", "8", "9">>[d + 1]

\* Date.now() is seconds * 1000 + millis; its decimal string.
TimestampString(seconds, millis) ==
    LET ds == Decimal(seconds) \o <<millis \div 100, (millis \div 10) % 10, millis % 10>>
    IN  [i \in 1..Len(ds) |-> DigitChar(ds[i])]

\* toUpperCase on base-36 digits.
ToUpperCase(c) == IF c = "a" THEN "A" ELSE IF c = "z" THEN "Z" ELSE c

\* Seeded fault: the code is the random part alone.
TicketCodeOfRandomOnly(seconds, millis, random) ==
    [i \in 1..Len(random) |-> ToUpperCase(random[i])]

\* `BK${timestamp}${randomStr}`: random is Math.random().toString(36) from
\* its third character on, at most RandomLen characters.
TicketCodeOf(seconds, millis, random) ==
    <<"B", "K">> \o TimestampString(seconds, millis)
                \o [i \in 1..Len(random) |-> ToUpperCase(random[i])]

\* The clock readings and random strings tried.
SampleSeconds == {1700000000}
SampleMillis == {7, 999}
SampleChars == {"a", "7"}
SampleRandoms == UNION { [1..n -> SampleChars] : n \in {0, 1, RandomLen} }

InitTicket ==
    /\ apartments = InitApartments
    /\ bookings = << >>
    /\ now = DateAt(0)
    /\ resp = NoResp
    /\ reqs = << >>
    /\ users = InitUsers
    /\ effects = {}
    /\ probe = [op |-> "none", codes |-> << >>, err |-> "none"]

\* Booking.create with the generated code: E11000 when the index holds it.
StoreTicketCode(seconds, millis, random) ==
    LET code == TicketCodeOf(seconds, millis, random) IN
    /\ Len(probe.codes) < MaxTickets
    /\ probe' = IF \E i \in DOMAIN probe.codes : probe.codes[i] = code
                THEN [probe EXCEPT !.op = "createBooking", !.err = "DuplicateKey"]
                ELSE [op |-> "createBooking", codes |-> Append(probe.codes, code),
                      err |-> "none"]
    /\ UNCHANGED <<apartments, bookings, now, resp, reqs, users>>
    /\ effects' = {}

NextTicket ==
    \E seconds \in SampleSeconds, millis \in SampleMillis, random \in SampleRandoms :
        StoreTicketCode(seconds, millis, random)

SpecTicket == InitTicket /\ [][NextTicket]_vars

----------------------------------------------------------------------------
(* The auto-checkout timer beside the requests of a stay: reservation, the   *)
(* owner's check-in, the guest's self-checkout.  A pass may meet failing     *)
(* saves and notifications; the timer keeps firing, and a pass whose saves   *)
(* all succeed keeps coming.                                                 *)

TimerPass ==
    \E saveFailing \in SUBSET BookingIds, failing \in SUBSET BookingIds :
        AutoCheckoutPass(saveFailing, failing)

NextTimer ==
    \/ Tick
    \/ Reserve
    \/ \E id \in BookingIds : UpdateBookingStatus("o1", id, "checked-in")
    \/ \E id \in BookingIds : SelfCheckout("g1", id, FALSE)
    \/ TimerPass

\* setInterval(processAutoCheckouts, 30 min): the pass is run again and again.
TimerFairness ==
    WF_vars(\E failing \in SUBSET BookingIds : AutoCheckoutPass({}, failing))

SpecTimer == Init /\ [][NextTimer]_vars /\ TimerFairness

----------------------------------------------------------------------------
(* The auto-checkout pass step by step: the scan loads the overdue bookings  *)
(* and fixes the pass's time; each loaded document is then saved in turn,    *)
(* and requests and other passes run between the steps.                      *)

\* The passes that have loaded documents not yet saved.
PassesInFlight == { reqs[k].pass : k \in DOMAIN reqs }

\* Lines 10-17: now = new Date(); Booking.find(...) and the documents as the
\* loop edits them.
PassScan ==
    LET expired == { i \in DOMAIN bookings : Expired(bookings[i], now) }
        pass == Min((1..(MaxInFlight + 1)) \ PassesInFlight)
        Loaded(i) == [id |-> i, pc |-> "autoSave", pass |-> pass,
                      doc |-> [bookings[i] EXCEPT !.bookingStatus = "completed",
                                                  !.checkOutTime = now]]
        RECURSIVE InOrder(_, _)
        InOrder(ids, q) ==
            IF ids = {} THEN q
            ELSE InOrder(ids \ {Min(ids)}, Append(q, Loaded(Min(ids))))
    IN
    /\ expired # {}
    /\ Len(reqs) + Cardinality(expired) <= MaxInFlight
    /\ reqs' = InOrder(expired, reqs)
    /\ resp' = NoResp
    /\ effects' = {}
    /\ UNCHANGED <<apartments, bookings, now, probe, users>>

\* Lines 26-32 for the next document of a pass: booking.save() writes the two
\* fields the loop modified to the stored booking, whatever it holds by now,
\* and the owner is notified.
PassSave(k) ==
    /\ k \in DOMAIN reqs
    /\ reqs[k].pc = "autoSave"
    /\ \A j \in DOMAIN reqs : j < k => reqs[j].pass # reqs[k].pass
    /\ LET r == reqs[k] IN
       /\ bookings' = [bookings EXCEPT ![r.id].bookingStatus = r.doc.bookingStatus,
                                       ![r.id].checkOutTime = r.doc.checkOutTime]
       /\ effects' = {<<"ownerNotification", r.id>>}
    /\ reqs' = Without(reqs, k)
    /\ resp' = NoResp
    /\ UNCHANGED <<apartments, now, probe, users>>

NextPass ==
    \/ Tick
    \/ Reserve
    \/ \E id \in BookingIds, status \in {"checked-in", "cancelled"} :
          UpdateBookingStatus("o1", id, status)
    \/ \E id \in BookingIds : SelfCheckout("g1", id, FALSE)
    \/ \E id \in BookingIds : CancelBooking("g1", id)
    \/ PassScan
    \/ \E k \in 1..MaxInFlight : PassSave(k)

SpecPass == Init /\ [][NextPass]_vars

----------------------------------------------------------------------------
(* Properties *)

\* A booking that counts toward occupancy: counted status, room number set.
HoldsRoom(b) == b.bookingStatus \in CountedStatuses /\ b.roomNumber # NoRoom

\* Two closed ranges of time share an instant (if they do, they share one of
\* their end points).
RangesIntersect(a1, a2, b1, b2) ==
    \E t \in {a1, a2, b1, b2} : a1 <= t /\ t <= a2 /\ b1 <= t /\ t <= b2

\* C1: no two bookings of the same listing that both count toward occupancy
\* and whose date ranges overlap (inclusive rule) hold the same room number.
C1_NoDoubleAllocation ==
    \A i \in DOMAIN bookings : \A j \in DOMAIN bookings :
        ( /\ i # j
          /\ bookings[i].apartmentId = bookings[j].apartmentId
          /\ HoldsRoom(bookings[i]) /\ HoldsRoom(bookings[j])
          /\ bookings[i].checkIn <= bookings[j].checkOut
          /\ bookings[j].checkIn <= bookings[i].checkOut )
        => bookings[i].roomNumber # bookings[j].roomNumber

\* The step answers a status-update request for booking id asking for status.
StatusRequestStep(id, status) ==
    /\ resp'.op = "updateBookingStatus"
    /\ resp'.id = id
    /\ resp'.arg = status
    /\ resp'.err # "Forbidden"

\* C9: a check-in request on a booking that is already checked-in is rejected
\* with the already-checked-in error carrying the booking's room number and
\* check-in time, and no stored field of any booking changes.
C9_IdempotentCheckIn ==
    [][ \A id \in DOMAIN bookings :
          ( /\ bookings[id].bookingStatus = "checked-in"
            /\ StatusRequestStep(id, "checked-in") )
          => /\ resp'.code = 400
             /\ resp'.err = "AlreadyCheckedIn"
             /\ resp'.room = bookings[id].roomNumber
             /\ resp'.time = bookings[id].checkInTime
             /\ bookings' = bookings ]_vars

\* C9 happens: a second check-in was answered after the clock moved on.
C9_Witness ==
    /\ resp.op = "updateBookingStatus"
    /\ resp.err = "AlreadyCheckedIn"
    /\ resp.id \in DOMAIN bookings
    /\ bookings[resp.id].bookingStatus = "checked-in"
    /\ bookings[resp.id].roomNumber # NoRoom
    /\ bookings[resp.id].checkInTime < now

\* C10: roomNumber and checkInTime are absent on a new booking, become set only
\* together and only by a successful check-in (stamped with the current time),
\* and once set are changed by no operation.
C10_RoomAssignedOnce ==
    [][ /\ \A id \in DOMAIN bookings' :
             (bookings'[id].roomNumber = NoRoom) <=> (bookings'[id].checkInTime = NoTime)
        /\ \A id \in DOMAIN bookings' \ DOMAIN bookings :
             bookings'[id].roomNumber = NoRoom
        /\ \A id \in DOMAIN bookings :
             /\ id \in DOMAIN bookings'
             /\ bookings[id].roomNumber # NoRoom
                  => /\ bookings'[id].roomNumber = bookings[id].roomNumber
                     /\ bookings'[id].checkInTime = bookings[id].checkInTime
             /\ (bookings[id].roomNumber = NoRoom /\ bookings'[id].roomNumber # NoRoom)
                  => /\ resp' = RespFor("updateBookingStatus", id, "checked-in", 200, "none",
                                        bookings'[id].roomNumber, now, 0)
                     /\ bookings'[id].checkInTime = now
                     /\ bookings'[id].bookingStatus = "checked-in" ]_vars

\* C10 happens: a booking checked in earlier has since been checked out and
\* then put through further status changes, and still has its room and time.
C10_Witness ==
    \E id \in DOMAIN bookings :
        /\ bookings[id].roomNumber # NoRoom
        /\ bookings[id].checkInTime < now
        /\ bookings[id].checkOutTime # NoTime
        /\ bookings[id].bookingStatus \in {"cancelled", "confirmed", "checked-in"}

\* The other bookings of id's listing that hold a room.
OtherHolders(id) ==
    { j \in DOMAIN bookings :
        /\ j # id
        /\ bookings[j].apartmentId = bookings[id].apartmentId
        /\ HoldsRoom(bookings[j]) }

DatesIntersect(i, j) ==
    RangesIntersect(bookings[i].checkIn, bookings[i].checkOut,
                    bookings[j].checkIn, bookings[j].checkOut)

\* Booking id has no room yet, and it and the bookings that hold rooms in its
\* listing all overlap one another and hold rooms 1..k, one each.
NextInLine(id, k) ==
    LET H == OtherHolders(id) IN
    /\ bookings[id].bookingStatus = "confirmed"
    /\ bookings[id].roomNumber = NoRoom
    /\ Cardinality(H) = k
    /\ { bookings[j].roomNumber : j \in H } = 1..k
    /\ \A i \in H \cup {id} : \A j \in H \cup {id} : DatesIntersect(i, j)

\* C6: when the bookings holding rooms 1..k of a listing and a further booking
\* all overlap one another, the check-in of that booking assigns room k+1 if
\* k < totalRooms, and fails with NoRoomsAvailable if k = totalRooms.
C6_RoomsInOrder ==
    [][ \A id \in DOMAIN bookings : \A k \in 0..ListingRooms :
          ( /\ NextInLine(id, k)
            /\ StatusRequestStep(id, "checked-in") )
          => IF k < apartments[bookings[id].apartmentId].totalRooms
             THEN /\ bookings'[id].roomNumber = k + 1
                  /\ bookings'[id].bookingStatus = "checked-in"
                  /\ resp'.code = 200
             ELSE /\ resp'.err = "NoRoomsAvailable"
                  /\ bookings'[id].roomNumber = NoRoom ]_vars

\* C6 happens: rooms 1..totalRooms are held by mutually overlapping bookings
\* and the check-in of one more overlapping booking has just failed.
C6_Witness ==
    /\ resp.op = "updateBookingStatus"
    /\ resp.err = "NoRoomsAvailable"
    /\ resp.id \in DOMAIN bookings
    /\ NextInLine(resp.id, ListingRooms)
    /\ \A j \in OtherHolders(resp.id) : bookings[j].bookingStatus = "checked-in"

\* Bookings a, b, c are as in the scenario after a's checkout: a is completed
\* with room 1 and a checkout time, b is checked-in in room 2, c is confirmed
\* without a room and overlaps both.
AfterCheckoutOfA(a, b, c) ==
    /\ apartments[1].totalRooms = 2
    /\ {a, b, c} \subseteq DOMAIN bookings /\ a # b /\ a # c /\ b # c
    /\ bookings[a].bookingStatus = "completed" /\ bookings[a].roomNumber = 1
    /\ bookings[a].checkOutTime # NoTime
    /\ bookings[b].bookingStatus = "checked-in" /\ bookings[b].roomNumber = 2
    /\ bookings[c].bookingStatus = "confirmed" /\ bookings[c].roomNumber = NoRoom
    /\ DatesIntersect(a, c) /\ DatesIntersect(b, c) /\ DatesIntersect(a, b)

\* C7 as stated: after a's checkout, c's next check-in succeeds in room 1.
C7_Original ==
    [][ \A a \in DOMAIN bookings, b \in DOMAIN bookings, c \in DOMAIN bookings :
          ( /\ AfterCheckoutOfA(a, b, c)
            /\ StatusRequestStep(c, "checked-in") )
          => /\ resp'.code = 200
             /\ bookings'[c].roomNumber = 1
             /\ bookings'[c].bookingStatus = "checked-in" ]_vars

\* C7 amended: after a's checkout, c's next check-in still fails with
\* NoRoomsAvailable and c stays confirmed without a room, because the
\* completed booking a still overlaps c and keeps room 1 occupied.
C7_StillNoRoom ==
    [][ \A a \in DOMAIN bookings, b \in DOMAIN bookings, c \in DOMAIN bookings :
          ( /\ AfterCheckoutOfA(a, b, c)
            /\ StatusRequestStep(c, "checked-in") )
          => /\ resp'.code = 400
             /\ resp'.err = "NoRoomsAvailable"
             /\ bookings' = bookings ]_vars

\* C7 happens: a has checked out and c's check-in has been tried after that.
C7_Witness ==
    /\ resp.op = "updateBookingStatus"
    /\ resp.arg = "checked-in"
    /\ \E a \in DOMAIN bookings, b \in DOMAIN bookings : AfterCheckoutOfA(a, b, resp.id)

\* Every room of id's listing is held by another counted booking whose dates
\* overlap id's.
NoFreeRoomFor(id) ==
    \A r \in 1..apartments[bookings[id].apartmentId].totalRooms :
        \E j \in OtherHolders(id) : bookings[j].roomNumber = r /\ DatesIntersect(id, j)

\* C8: a check-in that finds no free room is answered 400 NoRoomsAvailable
\* with the listing's totalRooms, stores nothing (the booking stays confirmed
\* with roomNumber and checkInTime absent) and leaves no request pending.
C8_NoRoomsLeavesBooking ==
    [][ \A id \in DOMAIN bookings :
          ( /\ bookings[id].bookingStatus = "confirmed"
            /\ bookings[id].roomNumber = NoRoom
            /\ NoFreeRoomFor(id)
            /\ StatusRequestStep(id, "checked-in") )
          => /\ resp'.code = 400
             /\ resp'.err = "NoRoomsAvailable"
             /\ resp'.total = apartments[bookings[id].apartmentId].totalRooms
             /\ bookings' = bookings
             /\ bookings'[id].bookingStatus = "confirmed"
             /\ bookings'[id].roomNumber = NoRoom
             /\ bookings'[id].checkInTime = NoTime
             /\ reqs' = << >> ]_vars

\* C8 happens: the last request was a check-in refused for lack of rooms.
C8_Witness ==
    /\ resp.op = "updateBookingStatus"
    /\ resp.arg = "checked-in"
    /\ resp.code = 400
    /\ resp.id \in DOMAIN bookings
    /\ bookings[resp.id].bookingStatus = "confirmed"
    /\ NoFreeRoomFor(resp.id)


\* C2: two check-in requests that run concurrently for overlapping bookings of
\* one listing never both persist the same room number.
C2_ConcurrentCheckInsDistinct ==
    \A i \in DOMAIN bookings : \A j \in DOMAIN bookings :
        ( /\ i # j
          /\ bookings[i].bookingStatus = "checked-in"
          /\ bookings[j].bookingStatus = "checked-in"
          /\ bookings[i].apartmentId = bookings[j].apartmentId
          /\ DatesIntersect(i, j)
          /\ bookings[i].roomNumber # NoRoom )
        => bookings[i].roomNumber # bookings[j].roomNumber

FreeRooms(totalRooms, occupied) == { r \in 1..totalRooms : r \notin occupied }

\* C3: the scan returns the smallest room of 1..N that is not occupied, and
\* fails exactly when every room of 1..N is occupied.
C3_SmallestFreeRoom ==
    probe.op = "findAvailableRoom" =>
        LET free == FreeRooms(probe.totalRooms, probe.occupied) IN
        /\ (probe.room = NoRoom) <=> (\A r \in 1..probe.totalRooms : r \in probe.occupied)
        /\ free # {} => (probe.room \in free /\ \A r \in free : probe.room <= r)

\* Rooms 2..N-1 occupied of N: room 1 is returned although room N is free too.
C3_Witness ==
    /\ probe.op = "findAvailableRoom"
    /\ probe.totalRooms = MaxProbeRooms
    /\ probe.occupied = 2..(MaxProbeRooms - 1)
    /\ probe.room = 1

\* Booking i is one the query of the recorded call can count, dates aside.
Eligible(i) ==
    /\ bookings[i].apartmentId = probe.aptId
    /\ bookings[i].bookingStatus \in {"confirmed", "checked-in", "completed"}
    /\ bookings[i].roomNumber # NoRoom
    /\ i # probe.exclude

\* No other eligible booking holds booking i's room.
OnlyHolder(i) ==
    \A j \in DOMAIN bookings \ {i} :
        Eligible(j) => bookings[j].roomNumber # bookings[i].roomNumber

\* C4: both queries count a booking [b1, b2] against the target [a1, a2]
\* exactly when b1 <= a2 and b2 >= a1, so a booking that only shares a
\* boundary day with the target occupies its room.
C4_InclusiveOverlap ==
    probe.op \in {"getNextAvailableRoom", "getRoomOccupancyStatus"} =>
        \A i \in DOMAIN bookings : Eligible(i) =>
            LET b == bookings[i]
                shares == RangesIntersect(b.checkIn, b.checkOut,
                                          probe.checkIn, probe.checkOut)
                counted == CASE probe.op = "getNextAvailableRoom" ->
                                    b.roomNumber \in probe.occupied
                             [] probe.op = "getRoomOccupancyStatus" ->
                                    probe.result.roomStatus[b.roomNumber]
            IN  /\ shares <=> (b.checkIn <= probe.checkOut /\ b.checkOut >= probe.checkIn)
                /\ shares => counted
                /\ (OnlyHolder(i) /\ ~shares) => ~counted
                /\ (shares /\ probe.op = "getNextAvailableRoom")
                       => probe.result.room # b.roomNumber

\* A booking that checks out on the target's check-in day is counted.
C4_Witness ==
    /\ probe.op = "getRoomOccupancyStatus"
    /\ \E i \in DOMAIN bookings :
          /\ Eligible(i)
          /\ OnlyHolder(i)
          /\ bookings[i].checkOut = probe.checkIn
          /\ probe.result.roomStatus[bookings[i].roomNumber]

\* C5: the occupied set of getNextAvailableRoom is exactly the set of room
\* numbers of the listing's bookings that are confirmed, checked-in or
\* completed, hold a room, overlap the target and are not the excluded
\* booking; the returned room is the lowest one outside that set.
C5_OccupiedSetExact ==
    probe.op = "getNextAvailableRoom" =>
        LET counted == { i \in DOMAIN bookings :
                           /\ bookings[i].apartmentId = probe.aptId
                           /\ bookings[i].bookingStatus \in
                                  {"confirmed", "checked-in", "completed"}
                           /\ bookings[i].roomNumber # NoRoom
                           /\ bookings[i].checkIn <= probe.checkOut
                           /\ bookings[i].checkOut >= probe.checkIn
                           /\ i # probe.exclude }
            rooms == { bookings[i].roomNumber : i \in counted }
            free == FreeRooms(apartments[probe.aptId].totalRooms, rooms)
        IN  /\ probe.occupied = rooms
            /\ (probe.result.err = "NoRooms") <=> (free = {})
            /\ free # {} => probe.result.room = Min(free)

\* The excluded booking holds room 1 and a completed booking holds room 2:
\* only room 2 is occupied, and room 1 is returned.
C5_Witness ==
    /\ probe.op = "getNextAvailableRoom"
    /\ probe.exclude = 1
    /\ bookings[1].apartmentId = probe.aptId
    /\ bookings[1].bookingStatus = "checked-in"
    /\ bookings[1].roomNumber = 1
    /\ Overlaps(bookings[1], probe.checkIn, probe.checkOut)
    /\ bookings[2].apartmentId = probe.aptId
    /\ bookings[2].bookingStatus = "completed"
    /\ bookings[2].roomNumber = 2
    /\ Overlaps(bookings[2], probe.checkIn, probe.checkOut)
    /\ probe.occupied = {2}
    /\ probe.result.room = 1

----------------------------------------------------------------------------
(* Lifecycle properties *)

\* The step answers a request of handler op for booking id.
RequestStep(op, id) == resp'.op = op /\ resp'.id = id

\* C11: once a booking is completed, no check-in, cancel, checkout or
\* status-update request on it succeeds, and it stays completed.
C11_CompletedIsTerminal ==
    [][ \A id \in DOMAIN bookings :
          bookings[id].bookingStatus = "completed"
          => /\ bookings'[id].bookingStatus = "completed"
             /\ \A op \in {"updateBookingStatus", "cancelBooking", "selfCheckout"} :
                   RequestStep(op, id) => resp'.code # 200 ]_vars

\* The status changes of the lifecycle.
LegalTransitions ==
    { <<"confirmed", "checked-in">>, <<"checked-in", "completed">>,
      <<"confirmed", "cancelled">>, <<"checked-in", "no_show">> }

\* C12: every change of bookingStatus, by any operation, is confirmed to
\* checked-in, checked-in to completed, confirmed to cancelled or checked-in
\* to no_show.
C12_OnlyLegalTransitions ==
    [][ \A id \in DOMAIN bookings :
          bookings'[id].bookingStatus # bookings[id].bookingStatus
          => <<bookings[id].bookingStatus, bookings'[id].bookingStatus>>
                 \in LegalTransitions ]_vars

\* C13: checkOutTime is written exactly when a booking becomes completed:
\* every completed booking has one, it is set only by the step that completes
\* the booking, and once set it is never overwritten.
C13_CheckOutTimeOnce ==
    [][ /\ \A id \in DOMAIN bookings' :
             bookings'[id].bookingStatus = "completed"
             => bookings'[id].checkOutTime # NoTime
        /\ \A id \in DOMAIN bookings :
             /\ bookings[id].checkOutTime # NoTime
                  => bookings'[id].checkOutTime = bookings[id].checkOutTime
             /\ (bookings[id].checkOutTime = NoTime /\ bookings'[id].checkOutTime # NoTime)
                  => /\ bookings[id].bookingStatus # "completed"
                     /\ bookings'[id].bookingStatus = "completed" ]_vars

\* Who may cancel booking id: its guest, and every admin.
MayCancel(id) == { u \in Users : u = bookings[id].guestId \/ Role(u) = "admin" }

\* C14: a cancel request by the guest or an admin on a confirmed booking is
\* rejected, the booking unchanged, when check-in is less than 24 hours away,
\* and otherwise succeeds and returns the booking cancelled.
C14_CancelLeadTime ==
    [][ \A id \in DOMAIN bookings : \A user \in MayCancel(id) :
          ( /\ bookings[id].bookingStatus = "confirmed"
            /\ CancelBooking(user, id) )
          => IF bookings[id].checkIn - now < CancelLeadHours
             THEN /\ resp'.code = 400
                  /\ bookings' = bookings
             ELSE /\ resp'.code = 200
                  /\ bookings'[id].bookingStatus = "cancelled" ]_vars

\* C15: a cancel request on a booking that is checked-in, completed,
\* cancelled or no_show returns an error and leaves the booking unchanged.
C15_CancelOnlyConfirmed ==
    [][ \A id \in DOMAIN bookings :
          ( /\ bookings[id].bookingStatus # "confirmed"
            /\ RequestStep("cancelBooking", id) )
          => /\ resp'.code # 200
             /\ bookings'[id] = bookings[id] ]_vars

\* C16: a booking becomes cancelled only by a cancel request of its guest or
\* of an admin.
C16_CancelledOnlyByGuestOrAdmin ==
    [][ \A id \in DOMAIN bookings :
          ( /\ bookings[id].bookingStatus # "cancelled"
            /\ bookings'[id].bookingStatus = "cancelled" )
          => \E user \in MayCancel(id) : CancelBooking(user, id) ]_vars

\* Neither an admin nor the owner of the listing of booking id.
NeitherOwnerNorAdmin(user, id) ==
    /\ Role(user) # "admin"
    /\ apartments[bookings[id].apartmentId].ownerId # user

\* C17: a status-update request from an actor who is neither the listing's
\* owner nor an admin is rejected as not authorized (403) and leaves the
\* booking unchanged, whatever the booking's status.
C17_StatusUpdateNeedsOwnerOrAdmin ==
    [][ \A id \in DOMAIN bookings : \A user \in Users : \A status \in AllowedStatuses :
          ( /\ NeitherOwnerNorAdmin(user, id)
            /\ UpdateBookingStatus(user, id, status) )
          => /\ resp'.code = 403
             /\ bookings' = bookings ]_vars

----------------------------------------------------------------------------
(* createBooking *)

\* C18: a booking accepted by createBooking is stored confirmed with
\* roomNumber, checkInTime and checkOutTime unset, and createBooking changes
\* no existing booking, no listing and no user.
C18_CreateBookingFrame ==
    [][ resp'.op = "createBooking" =>
          /\ apartments' = apartments
          /\ users' = users
          /\ \A id \in DOMAIN bookings :
                id \in DOMAIN bookings' /\ bookings'[id] = bookings[id]
          /\ IF resp'.code = 201
             THEN /\ Len(bookings') = Len(bookings) + 1
                  /\ resp'.id = Len(bookings')
                  /\ bookings'[resp'.id].bookingStatus = "confirmed"
                  /\ bookings'[resp'.id].roomNumber = NoRoom
                  /\ bookings'[resp'.id].checkInTime = NoTime
                  /\ bookings'[resp'.id].checkOutTime = NoTime
             ELSE bookings' = bookings ]_vars

\* C18 happens: a reservation was accepted for dates on which an earlier
\* booking of the listing is checked in to a room.
C18_Witness ==
    /\ resp.op = "createBooking"
    /\ resp.code = 201
    /\ resp.id \in DOMAIN bookings
    /\ bookings[resp.id].roomNumber = NoRoom
    /\ \E j \in DOMAIN bookings :
          /\ j # resp.id
          /\ bookings[j].apartmentId = bookings[resp.id].apartmentId
          /\ bookings[j].bookingStatus = "checked-in"
          /\ bookings[j].roomNumber # NoRoom
          /\ DatesIntersect(j, resp.id)

\* Some room of the listing is held by no counted booking whose dates share a
\* day with days d1..d2.
RoomFree(aptId, d1, d2) ==
    \E r \in 1..apartments[aptId].totalRooms :
        \A j \in DOMAIN bookings :
            ~ ( /\ bookings[j].apartmentId = aptId
                /\ HoldsRoom(bookings[j])
                /\ bookings[j].roomNumber = r
                /\ RangesIntersect(bookings[j].checkIn, bookings[j].checkOut,
                                   DateAt(d1), DateAt(d2)) )

\* Everything createBooking requires of the listing, its owner and the dates.
Bookable(aptId, d1, d2) ==
    /\ aptId \in DOMAIN apartments
    /\ apartments[aptId].isActive
    /\ apartments[aptId].ownerId \in DOMAIN users
    /\ users[apartments[aptId].ownerId].status # "suspended"
    /\ users[apartments[aptId].ownerId].payment = "verified"
    /\ d1 >= now \div HoursPerDay
    /\ d2 > d1
    /\ RoomFree(aptId, d1, d2)

\* The day of a stored date.
DayOf(date) == date \div HoursPerDay

\* C19: createBooking stores a booking only if the listing exists and is
\* active, its owner exists, is not suspended and has a verified payment
\* account, checkIn is not before today, checkOut is after checkIn and a room
\* is free for the range; otherwise it returns an error, stores nothing and
\* fires no side effect.  (A request that stores a booking stores its own
\* listing and dates, so a request for which some condition fails is one
\* that stores nothing.)
C19_CreateBookingValidates ==
    [][ resp'.op = "createBooking" =>
          IF bookings' # bookings
          THEN LET b == bookings'[Len(bookings')] IN
               /\ Len(bookings') = Len(bookings) + 1
               /\ Bookable(b.apartmentId, DayOf(b.checkIn), DayOf(b.checkOut))
               /\ resp'.code = 201
          ELSE /\ resp'.code \in {400, 404}
               /\ effects' = {} ]_vars

\* C19 happens: a request was refused because the owner's payment account is
\* not verified, while the other listing has taken a booking.
C19_Witness ==
    /\ resp.op = "createBooking"
    /\ resp.err = "PaymentAccountNotConfigured"
    /\ effects = {}
    /\ Len(bookings) > 0

\* C20: when side effects fail (notifications, chat, commission during
\* createBooking; the owner notification during self-checkout or
\* auto-checkout) the primary change is stored all the same -- the booking
\* confirmed, respectively completed with its checkOutTime -- and the
\* operation reports success.
C20_SideEffectFailuresTolerated ==
    [][ /\ resp'.op = "createBooking" =>
             \A d1 \in Days, d2 \in Days, payment \in {"not_required", "paid"} :
             \A failing \in SUBSET SideEffects \ {{}} :
                ( /\ Bookable(1, d1, d2)
                  /\ CreateBooking("g1", 1, d1, d2, payment, failing) )
                => /\ resp'.code = 201
                   /\ bookings' = Append(bookings, bookings'[Len(bookings')])
                   /\ bookings'[Len(bookings')].bookingStatus = "confirmed"
                   /\ bookings'[Len(bookings')].checkIn = DateAt(d1)
                   /\ bookings'[Len(bookings')].checkOut = DateAt(d2)
                   /\ \A k \in failing : <<k, Len(bookings')>> \notin effects'
        /\ resp'.op = "selfCheckout" =>
             \A id \in DOMAIN bookings :
                ( /\ bookings[id].bookingStatus = "checked-in"
                  /\ bookings[id].checkOutTime = NoTime
                  /\ SelfCheckout("g1", id, TRUE) )
                => /\ resp'.code = 200
                   /\ bookings'[id].bookingStatus = "completed"
                   /\ bookings'[id].checkOutTime = now
                   /\ effects' = {}
        /\ (resp'.op = "none" /\ now' = now) =>
             \A failing \in SUBSET BookingIds \ {{}} :
             ProcessAutoCheckouts(failing)
             => \A id \in DOMAIN bookings :
                   Expired(bookings[id], now)
                   => /\ bookings'[id].bookingStatus = "completed"
                      /\ bookings'[id].checkOutTime = now
                      /\ (id \in failing => <<"ownerNotification", id>> \notin effects') ]_vars

\* C20 happens: a reservation was answered 201 and stored although none of
\* its side effects was created.
C20_Witness ==
    /\ resp.op = "createBooking"
    /\ resp.code = 201
    /\ effects = {}
    /\ resp.id \in DOMAIN bookings
    /\ bookings[resp.id].bookingStatus = "confirmed"

----------------------------------------------------------------------------
(* The auto-checkout timer *)

\* The step is an auto-checkout pass all of whose saves succeed.
PassStep == \E failing \in SUBSET BookingIds : AutoCheckoutPass({}, failing)

C22_FailureDoesNotStopBatch ==
    [][ \A saveFailing \in SUBSET BookingIds, failing \in SUBSET BookingIds :
          AutoCheckoutPass(saveFailing, failing)
          => \A id \in DOMAIN bookings :
                ( /\ Expired(bookings[id], now)
                  /\ id \notin saveFailing )
                => /\ bookings'[id].bookingStatus = "completed"
                   /\ bookings'[id].checkOutTime = now ]_vars

\* C22 happens: a pass left one overdue booking as it was (its save failed)
\* and completed and notified another.
C22_Witness ==
    \E i \in DOMAIN bookings, j \in DOMAIN bookings :
        /\ i < j
        /\ resp = NoResp
        /\ Expired(bookings[i], now)
        /\ <<"ownerNotification", j>> \in effects
        /\ bookings[j].bookingStatus = "completed"
        /\ bookings[j].checkOutTime = now

\* A pass whose saves succeed and that changes some booking.
PassChangesBooking == PassStep /\ bookings' # bookings

----------------------------------------------------------------------------
(* Commissions *)

\* C24 (the part about createBooking): a booking created with a successful
\* payment (and a positive amount: every stay has a night and a price) has
\* its commission record once the request is answered, when no call of the
\* environment fails.
C24_CommissionPerPaidBooking ==
    [][ resp'.op = "createBooking" =>
          \A d1 \in Days, d2 \in Days :
             ( /\ CreateBooking("g1", 1, d1, d2, "paid", {})
               /\ resp'.code = 201 )
             => <<"commission", resp'.id>> \in effects' ]_vars

----------------------------------------------------------------------------
(* Ticket codes *)

TicketCodeLength == 8

TicketChars ==
    {"A", "B", "C", "D", "E", "F", "G", "H", "I", "J", "K", "L", "M",
     "N", "O", "P", "Q", "R", "S", "T", "U", "V", "W", "X", "Y", "Z",
     "0", "1", "2", "3", "4", "5", "6", "7", "8", "9"}

\* C25: every stored ticket code has exactly 8 characters, each of A-Z and
\* 0-9, and no two stored codes are equal.
C25_TicketCodeFormat ==
    \A i \in DOMAIN probe.codes :
        /\ Len(probe.codes[i]) = TicketCodeLength
        /\ \A k \in DOMAIN probe.codes[i] : probe.codes[i][k] \in TicketChars
        /\ \A j \in DOMAIN probe.codes : j # i => probe.codes[j] # probe.codes[i]

----------------------------------------------------------------------------
(* Listing edits *)

\* C26: each booking's roomNumber, when set, lies in 1..totalRooms of its
\* listing.
C26_RoomWithinTotalRooms ==
    \A id \in DOMAIN bookings :
        bookings[id].roomNumber # NoRoom
        => /\ bookings[id].roomNumber >= 1
           /\ bookings[id].roomNumber <= apartments[bookings[id].apartmentId].totalRooms

\* C27: the occupancy query changes no booking and no listing; its result
\* has exactly one entry for every room 1..totalRooms, marked occupied iff a
\* counted overlapping booking holds that room; occupiedRooms is the number
\* of entries marked occupied and availableRooms = totalRooms - occupiedRooms
\* is not negative.
C27_OccupancyReport ==
    [][ (probe.op = "none" /\ probe'.op = "getRoomOccupancyStatus") =>
          LET r == probe'.result
              total == apartments[probe'.aptId].totalRooms
          IN
          /\ bookings' = bookings
          /\ apartments' = apartments
          /\ DOMAIN r.roomStatus = 1..total
          /\ \A room \in 1..total :
                r.roomStatus[room]
                <=> \E i \in DOMAIN bookings :
                       /\ bookings[i].apartmentId = probe'.aptId
                       /\ bookings[i].roomNumber = room
                       /\ bookings[i].bookingStatus \in {"confirmed", "checked-in", "completed"}
                       /\ bookings[i].checkIn <= probe'.checkOut
                       /\ bookings[i].checkOut >= probe'.checkIn
          /\ r.occupiedRooms = Cardinality({ room \in DOMAIN r.roomStatus : r.roomStatus[room] })
          /\ r.availableRooms = total - r.occupiedRooms
          /\ r.availableRooms >= 0 ]_vars

----------------------------------------------------------------------------
(* Accepted reservations against capacity *)

\* C28: createBooking never accepts a reservation that raises above
\* totalRooms the number of non-cancelled bookings of a listing whose date
\* ranges all overlap one another.
C28_AcceptsWithinCapacity ==
    \A a \in DOMAIN apartments : \A S \in SUBSET DOMAIN bookings :
        ( /\ \A i \in S : /\ bookings[i].apartmentId = a
                           /\ bookings[i].bookingStatus # "cancelled"
          /\ \A i \in S : \A j \in S :
                /\ bookings[i].checkIn <= bookings[j].checkOut
                /\ bookings[j].checkIn <= bookings[i].checkOut )
        => Cardinality(S) <= apartments[a].totalRooms

----------------------------------------------------------------------------
(* The auto-checkout pass among other operations *)

\* C29: the write of an auto-checkout pass never overrides what another
\* operation stored between the pass's scan and its save: a checkOutTime
\* already stored is not re-stamped, and a booking that is no longer
\* checked-in is not set to completed.
C29_PassWriteDoesNotOverride ==
    [][ \A k \in DOMAIN reqs :
          PassSave(k)
          => LET id == reqs[k].id IN
             /\ bookings[id].checkOutTime # NoTime
                  => bookings'[id].checkOutTime = bookings[id].checkOutTime
             /\ bookings[id].bookingStatus # "checked-in"
                  => bookings'[id].bookingStatus = bookings[id].bookingStatus ]_vars

----------------------------------------------------------------------------
(* Cancellation and the listing's counter *)

\* C30: a cancel request either reports success and leaves the booking
\* cancelled, or reports an error and leaves the booking and the listing
\* unchanged; and every listing's availableRooms stays within 0..totalRooms.
C30_CancelAllOrNothing ==
    [][ /\ \A id \in DOMAIN bookings :
             RequestStep("cancelBooking", id)
             => \/ /\ resp'.code = 200
                   /\ bookings'[id].bookingStatus = "cancelled"
                \/ /\ resp'.code # 200
                   /\ bookings' = bookings
                   /\ apartments' = apartments
        /\ \A a \in DOMAIN apartments' :
             /\ apartments'[a].availableRooms >= 0
             /\ apartments'[a].availableRooms <= apartments'[a].totalRooms ]_vars

============================================================================
